---- MODULE Spec2Model ----
(***************************************************************************)
(* Model of the drift-diffusion / SDT simulators of src/diffusion.cpp and  *)
(* src/diffusion_parallel.cpp: the serial engine diffusion_SDT_sim2, the   *)
(* RcppParallel engine diffusion_SDT (workers draw from the file-level     *)
(* generator `rng`) and the RcppParallel engine diffusion_parallel         *)
(* (workers construct a local pcg64).                                      *)
(*                                                                         *)
(* Numbers.  Real quantities are fixed-point values counted in 1/Unit:     *)
(* with Unit = 2 the value 1 is 0.5, 4 is 2.0.  Time is counted in model   *)
(* ticks, Dt ticks per integration step.  The generators are pcg-style     *)
(* LCGs of RngBits bits: state' = state * 5 + inc, inc odd.                *)
(*                                                                         *)
(* Concurrency.  parallelFor runs one invocation of Diffusion::operator()  *)
(* per range; the invocations interleave at every access to shared data.   *)
(* A draw from the shared generator of diffusion_SDT is a read of its      *)
(* state and increment followed by a write of the new state, unprotected:  *)
(* other workers may act in between, so draws can be lost or repeated.     *)
(*                                                                         *)
(* A behaviour of Spec is any number of reseeds and one simulation call;   *)
(* all that a call inherits from earlier ones is the generators' state,    *)
(* which Init and SetSeed choose.  SpecDet runs seeded calls in sequence,  *)
(* SpecTwice runs diffusion_SDT_sim2 twice, and SpecThreads runs           *)
(* diffusion_SDT on every host (hardware concurrency and override).        *)
(***************************************************************************)
EXTENDS Integers, Sequences, FiniteSets, TLC

\* ------------------------------------------------------------- bounds
MaxN == 2
MaxSteps == 2
MaxSeed == 1
RngBits == 3
Unit == 2
MaxHw == 2
MaxEnvLen == 2

\* ---------------------------------------------------- program constants
Dt == 2
FixedSeed == 42
DefaultInc == 1

VARIABLES rng, dq, call, sim_data, vecs, ser, workers, trial, log, prev, host

vars == <<rng, dq, call, sim_data, vecs, ser, workers, trial, log, prev, host>>

\* ------------------------------------------------------- the generators
RngMod == 2 ^ RngBits

StreamInc(stream) == (2 * stream + 1) % RngMod

Bump(state, inc) == (state * 5 + inc) % RngMod

Unbump(state, inc) == CHOOSE s \in 0 .. RngMod - 1 : Bump(s, inc) = state

Output(state) == (state + (state \div 4)) % RngMod

PcgSeed(seed) ==
    [state |-> Bump((seed + DefaultInc) % RngMod, DefaultInc), inc |-> DefaultInc]

PcgSeedStream(seed, stream) ==
    [state |-> Bump((seed + StreamInc(stream)) % RngMod, StreamInc(stream)),
     inc |-> StreamInc(stream)]

SetStream(g, stream) == [g EXCEPT !.inc = StreamInc(stream)]

Advance(g) == [g EXCEPT !.state = Bump(g.state, g.inc)]

BackstepNone(g) == g

Backstep(g) == [g EXCEPT !.state = Unbump(g.state, g.inc)]

NoGen == [state |-> -1, inc |-> -1]

\* ---------------------------------------------------- the distributions
StdNormal(out) == (out % 3) - 1

Normal(mean, sd, out) == mean + StdNormal(out) * sd

UniformCentred(lo, hi, out) ==
    IF hi > lo THEN lo - ((hi - lo) \div 2) + (out % (hi - lo)) ELSE lo

Uniform(lo, hi, out) == IF hi > lo THEN lo + (out % (hi - lo)) ELSE lo

\* ------------------------------------------------- fixed-point helpers
Mul(x, y) == (x * y) \div Unit

Half == Unit \div 2

ISqrt(x) == CHOOSE r \in 0 .. x : r * r <= x /\ (r + 1) * (r + 1) > x

StepSd(s) == ISqrt(s * s * Dt)

\* ------------------------------------------------------------ the host
\* What nThreads() reads: the value of hardware_concurrency() (0 when the
\* platform cannot tell) and the environment variable
\* RCPP_PARALLEL_NUM_THREADS, absent or a character string.
EnvChars == {"-", "0", "2", "x"}

RECURSIVE EnvTextsOf(_)
EnvTextsOf(len) ==
    IF len = 0 THEN {<<>>}
    ELSE {<<c>> \o t : c \in EnvChars, t \in EnvTextsOf(len - 1)}

EnvTexts == UNION {EnvTextsOf(len) : len \in 0 .. MaxEnvLen}

NoEnv == [set |-> FALSE, text |-> <<>>]

Hosts ==
    [hw : 0 .. MaxHw, env : {NoEnv} \cup {[set |-> TRUE, text |-> t] : t \in EnvTexts}]

IsDigit(c) == c \in {"0", "1", "2", "3", "4", "5", "6", "7", "8", "9"}

DigitOf(c) ==
    CASE c = "0" -> 0 [] c = "1" -> 1 [] c = "2" -> 2 [] c = "3" -> 3
      [] c = "4" -> 4 [] c = "5" -> 5 [] c = "6" -> 6 [] c = "7" -> 7
      [] c = "8" -> 8 [] c = "9" -> 9

RECURSIVE AtoiDigits(_, _)
AtoiDigits(text, acc) ==
    IF text = <<>> \/ ~IsDigit(Head(text)) THEN acc
    ELSE AtoiDigits(Tail(text), acc * 10 + DigitOf(Head(text)))

\* ::atoi: an optional sign, then the leading decimal digits; 0 without any
Atoi(text) ==
    IF text # <<>> /\ Head(text) = "-" THEN 0 - AtoiDigits(Tail(text), 0)
    ELSE AtoiDigits(text, 0)

nThreads(h) ==
    LET threads == h.hw
    IN  IF h.env.set
        THEN LET parsedThreads == Atoi(h.env.text)
             IN  IF parsedThreads > 0 THEN parsedThreads ELSE threads
        ELSE threads

\* the int division N / nThreads(): by zero it is undefined, and the build
\* either traps (SIGFPE) or yields 0
IntDiv(n, d) ==
    IF d = 0 THEN {[trap |-> TRUE, q |-> 0], [trap |-> FALSE, q |-> 0]}
    ELSE {[trap |-> FALSE, q |-> n \div d]}


\* --------------------------------------------------------- the inputs
\* With Unit = 2: a = 4 is 2.0, z = 1 is 0.5, sz = 2 is 1.0, s = 2 is 1.0.
\* a = 1 with z = 1 starts a trial of diffusion.cpp exactly on the upper
\* boundary; sz = 2 lets a start point fall exactly on 0.  a = -2, z = 0 and
\* s = 0 are requests outside the documented ranges, which the code accepts.
Params ==
    { p \in [a : {-2, 1, 4}, v : {0, 1}, t0 : {1}, z : {0, 1}, sz : {0, 2},
             sv : {0, 1}, st0 : {0, 2}, s : {0, 2},
             crit : {<<0, 0>>, <<1, -1>>}] :
        /\ Cardinality({f \in {"a", "z", "s"} :
                           \/ f = "a" /\ p.a <= 0
                           \/ f = "z" /\ p.z <= 0
                           \/ f = "s" /\ p.s <= 0}) <= 1
        /\ (p.a <= 1 \/ p.z <= 0 \/ p.s <= 0)
               => (p.v = 0 /\ p.sz = 0 /\ p.sv = 0 /\ p.st0 = 0)
        /\ (p.v = 1 => p.crit = <<1, -1>>)
        /\ (p.v = 0 /\ p.sv = 0 => p.crit = <<0, 0>>) }

Trials == 0 .. MaxN

Seeds == 0 .. MaxSeed

\* the documented argument ranges (no code checks them)
ValidRequest(n, p) ==
    /\ n > 0
    /\ p.a > 0
    /\ p.s > 0
    /\ p.z > 0 /\ p.z < Unit
    /\ Len(p.crit) = 2

Rows(n) == 0 .. n - 1

ZeroRow == [RT |-> 0, speeded_resp |-> 0, delayed_resp |-> 0]

NewMatrix(n) == [i \in Rows(n) |-> ZeroRow]

NoTrial ==
    [evidence |-> 0, drift |-> 0, start |-> 0, ndt |-> 0, steps |-> 0,
     pos |-> 0, hit |-> -1, noise |-> <<>>, by |-> <<>>]

NoVecs == [evidence |-> <<>>, drifts |-> <<>>, start_points |-> <<>>, NDT |-> <<>>]

NoSer ==
    [pc |-> "off", i |-> 0, pos |-> 0, step |-> 0, hit |-> -1, noise |-> <<>>,
     seed |-> -1]

\* history: the number of updates after which the position was first seen
\* at or beyond a boundary (-1 while it has always been strictly inside)
FirstExit(old, pos, a, step) ==
    IF old >= 0 THEN old ELSE IF pos <= 0 \/ pos >= a THEN step ELSE -1

NoLog == [drew |-> FALSE, built |-> {}, sampled |-> {}]

NoPar ==
    [a |-> 0, v |-> 0, t0 |-> 0, z |-> 0, sz |-> 0, sv |-> 0, st0 |-> 0, s |-> 0,
     crit |-> <<0, 0>>]

Idle ==
    [engine |-> "none", phase |-> "idle", N |-> 0, par |-> NoPar,
     rng0 |-> NoGen, cuts |-> {}, s |-> 0, z |-> 0, threads |-> 0, grain |-> 0]

NoPrev == [runs |-> 0, seed |-> -1, armed |-> FALSE, N |-> 0, par |-> NoPar,
           cuts |-> {}, table |-> <<>>]

\* everything but the host and the process-wide generator
Fresh ==
    /\ dq = PcgSeed(0)
    /\ call = Idle
    /\ sim_data = NewMatrix(0)
    /\ vecs = NoVecs
    /\ ser = NoSer
    /\ workers = <<>>
    /\ trial = <<>>
    /\ log = NoLog
    /\ prev = NoPrev

\* a host with MaxHw hardware threads and no override
Init ==
    /\ rng \in {PcgSeedStream(x, y) : x \in Seeds, y \in Seeds}
    /\ host = [hw |-> MaxHw, env |-> NoEnv]
    /\ Fresh

\* ---------------------------------------------- set_diffusion_SDT_seed
Reseed(new_seed) ==
    /\ call.phase # "running"
    /\ rng' = PcgSeed(new_seed)
    /\ call' = Idle
    /\ sim_data' = NewMatrix(0)
    /\ vecs' = NoVecs
    /\ ser' = NoSer
    /\ workers' = <<>>
    /\ trial' = <<>>
    /\ log' = NoLog
    /\ UNCHANGED <<dq, host>>

SetSeed(new_seed) ==
    /\ call.phase = "idle"
    /\ Reseed(new_seed)
    /\ UNCHANGED prev

\* --------------------------------------------------- diffusion_SDT_sim2
RECURSIVE AdvanceBy(_, _)
AdvanceBy(g, n) == IF n = 0 THEN g ELSE AdvanceBy(Advance(g), n - 1)

\* the k-th of n consecutive draws from g, k in 0 .. n-1
DrawAt(g, k) == Output(AdvanceBy(g, k + 1).state)

Crit(p, k) == p.crit[k + 1]

StartCall(eng, n, p, cuts, z) ==
    [engine |-> eng, phase |-> "running", N |-> n, par |-> p,
     rng0 |-> rng, cuts |-> cuts, s |-> StepSd(p.s), z |-> z,
     threads |-> 0, grain |-> 0]

Sim2Start(n, p) ==
    /\ call.phase # "running"
    /\ LET seedDraw == Output(Advance(rng).state)
           g0 == PcgSeed(seedDraw)
           g1 == AdvanceBy(g0, n)
           g2 == IF p.sz > 0 THEN AdvanceBy(g1, n) ELSE g1
           g3 == IF p.st0 > 0 THEN AdvanceBy(g2, n) ELSE g2
           evidence == [i \in Rows(n) |-> Normal(p.v, p.sv, DrawAt(g0, i))]
           start_points ==
               [i \in Rows(n) |->
                   IF p.sz > 0
                   THEN Uniform(p.z - Mul(Half, p.sz), p.z + Mul(Half, p.sz),
                                DrawAt(g1, i))
                   ELSE p.z]
           NDT == [i \in Rows(n) |->
                      IF p.st0 > 0
                      THEN Uniform(p.t0, p.t0 + p.st0, DrawAt(g2, i))
                      ELSE p.t0]
           dists == {<<"normal", p.v, p.sv>>}
                      \cup (IF p.sz > 0
                            THEN {<<"uniform", p.z - Mul(Half, p.sz),
                                    p.z + Mul(Half, p.sz)>>}
                            ELSE {})
                      \cup (IF p.st0 > 0
                            THEN {<<"uniform", p.t0, p.t0 + p.st0>>}
                            ELSE {})
       IN  /\ rng' = Backstep(Advance(rng))
           /\ dq' = g3
           /\ vecs' = [evidence |-> evidence,
                       drifts |-> [i \in Rows(n) |-> evidence[i] * Dt],
                       start_points |-> start_points, NDT |-> NDT]
           /\ ser' = [pc |-> IF n > 0 THEN "walk" ELSE "post", i |-> 0,
                      pos |-> IF n > 0 THEN start_points[0] ELSE 0, step |-> 0,
                      hit |-> IF n > 0 THEN FirstExit(-1, start_points[0], p.a, 0)
                              ELSE -1,
                      noise |-> <<>>, seed |-> seedDraw]
           /\ log' = [drew |-> TRUE, built |-> dists,
                      sampled |-> IF n > 0 THEN dists ELSE {}]
    /\ call' = StartCall("sim2", n, p, {}, p.z)
    /\ sim_data' = NewMatrix(n)
    /\ trial' = [i \in Rows(n) |-> NoTrial]
    /\ workers' = <<>>
    /\ UNCHANGED host

Sim2Begin(n, p) ==
    /\ call.phase = "idle"
    /\ Sim2Start(n, p)
    /\ UNCHANGED prev

Sim2Running(pos, a) == ~(pos > a \/ pos < 0)

Sim2Step ==
    /\ call.engine = "sim2" /\ call.phase = "running" /\ ser.pc = "walk"
    /\ Sim2Running(ser.pos, call.par.a)
    /\ ser.step < MaxSteps
    /\ LET g == Advance(dq)
           v_inst == vecs.drifts[ser.i]
           pos == ser.pos + Normal(v_inst, call.s, Output(g.state))
       IN  /\ dq' = g
           /\ ser' = [ser EXCEPT !.step = @ + 1, !.pos = pos,
                                 !.hit = FirstExit(@, pos, call.par.a, ser.step + 1),
                                 !.noise = Append(@, pos - ser.pos - v_inst)]
           /\ log' = [log EXCEPT !.built = @ \cup {<<"normal", v_inst, call.s>>},
                                 !.sampled = @ \cup {<<"normal", v_inst, call.s>>}]
    /\ UNCHANGED <<rng, call, sim_data, vecs, workers, trial, prev, host>>

Sim2TrialEnd ==
    /\ call.engine = "sim2" /\ call.phase = "running" /\ ser.pc = "walk"
    /\ ~Sim2Running(ser.pos, call.par.a)
    /\ LET i == ser.i
       IN  /\ sim_data' =
                 [sim_data EXCEPT
                    ![i] = [@ EXCEPT
                              !.speeded_resp = IF ser.pos >= call.par.a THEN 1 ELSE @,
                              !.RT = ser.step * Dt]]
           /\ trial' = [trial EXCEPT
                          ![i] = [evidence |-> vecs.evidence[i],
                                  drift |-> vecs.drifts[i],
                                  start |-> vecs.start_points[i],
                                  ndt |-> vecs.NDT[i], steps |-> ser.step,
                                  pos |-> ser.pos, hit |-> ser.hit,
                                  noise |-> ser.noise, by |-> Append(@.by, 0)]]
           /\ ser' = IF i + 1 < call.N
                        THEN [ser EXCEPT !.i = i + 1, !.step = 0, !.noise = <<>>,
                                         !.pos = vecs.start_points[i + 1],
                                         !.hit = FirstExit(-1, vecs.start_points[i + 1],
                                                           call.par.a, 0)]
                        ELSE [ser EXCEPT !.pc = "post"]
    /\ UNCHANGED <<rng, dq, call, vecs, workers, log, prev, host>>

Sim2Finish ==
    /\ call.engine = "sim2" /\ call.phase = "running" /\ ser.pc = "post"
    /\ sim_data' =
          [j \in Rows(call.N) |->
              LET above_crit_o == vecs.evidence[j] > Crit(call.par, 0)
                  above_crit_n == vecs.evidence[j] > Crit(call.par, 1)
                  said_old == sim_data[j].speeded_resp = 1
              IN  [sim_data[j] EXCEPT
                     !.RT = vecs.NDT[j] + @,
                     !.delayed_resp =
                         IF (above_crit_o /\ said_old) \/ (above_crit_n /\ ~said_old)
                         THEN 1 ELSE @]]
    /\ call' = [call EXCEPT !.phase = "returned"]
    /\ ser' = [ser EXCEPT !.pc = "off"]
    /\ UNCHANGED <<rng, dq, vecs, workers, trial, log, host>>

Sim2Return ==
    /\ Sim2Finish
    /\ UNCHANGED prev

\* ------------------------------------------------ RcppParallel::parallelFor
\* [0,n) is split at the cut points into contiguous non-empty ranges; one
\* worker invocation per range, named by the range's exclusive upper bound.
Splits(n) == SUBSET (1 .. n - 1)

Ends(n, cuts) == IF n > 0 THEN cuts \cup {n} ELSE {}

BeginOf(e, cuts) ==
    LET below == {0} \cup {c \in cuts : c < e}
    IN  CHOOSE b \in below : \A c \in below : c <= b

NewWorker(b, e) ==
    [begin |-> b, end |-> e, pc |-> "start", i |-> b, evidence |-> 0, drift |-> 0,
     start |-> 0, pos |-> 0, step |-> 0, hit |-> -1, noise |-> <<>>, key |-> -1,
     gen |-> NoGen, rd |-> NoGen]

NewWorkers(n, cuts) == [e \in Ends(n, cuts) |-> NewWorker(BeginOf(e, cuts), e)]

AllDoneSome == \E w \in DOMAIN workers : workers[w].pc = "done"

\* parallelFor returns when every invocation of operator() has returned
AllDone == \A w \in DOMAIN workers : workers[w].pc = "done"

\* ---------------------------------- diffusion_SDT (src/diffusion.cpp)
\* N / nThreads() is evaluated after the table is allocated and before
\* parallelFor starts a worker; a trap there ends the process.
SDTStart(n, p, cuts) ==
    /\ call.phase # "running"
    /\ \E grainSize \in IntDiv(n, nThreads(host)) :
          /\ call' = [StartCall("SDT", n, p, cuts, p.z) EXCEPT
                        !.threads = nThreads(host),
                        !.grain = grainSize.q,
                        !.phase = IF grainSize.trap THEN "crashed" ELSE @]
          /\ workers' = IF grainSize.trap THEN <<>> ELSE NewWorkers(n, cuts)
    /\ sim_data' = NewMatrix(n)
    /\ trial' = [i \in Rows(n) |-> NoTrial]
    /\ vecs' = NoVecs
    /\ ser' = NoSer
    /\ log' = NoLog
    /\ UNCHANGED <<rng, dq, host>>

SDTBegin(n, p, cuts) ==
    /\ call.phase = "idle"
    /\ SDTStart(n, p, cuts)
    /\ UNCHANGED prev

StreamKeyWidth(me) == me.end - me.begin

\* the stream a worker invocation selects: rng.set_stream(end), pcg64(42, end)
StreamKey(me) == me.end

WorkerRunningClosed(pos, a) == pos <= a /\ pos >= 0

WorkerRunning(pos, a) == pos < a /\ pos > 0

SDTDists(c) ==
    {<<"normal", c.par.v, c.par.sv>>, <<"normal", 0, c.s>>,
     <<"uniform", c.par.t0, c.par.t0 + c.par.st0>>,
     <<"uniform", c.z - Mul(Half, c.par.sz), c.z + Mul(Half, c.par.sz)>>}

SDTWorkerStart(w) ==
    /\ call.engine = "SDT" /\ call.phase = "running"
    /\ workers[w].pc = "start"
    /\ rng' = SetStream(rng, StreamKey(workers[w]))
    /\ workers' = [workers EXCEPT ![w].key = StreamKey(workers[w]),
                                  ![w].pc = "evidence"]
    /\ log' = [log EXCEPT !.built = @ \cup SDTDists(call)]
    /\ UNCHANGED <<dq, call, sim_data, vecs, ser, trial, prev, host>>

\* where operator() is about to call a distribution on rng
SDTNeedsDraw(w) ==
    \/ workers[w].pc \in {"evidence", "startpt"}
    \/ /\ workers[w].pc = "walk"
       /\ \/ WorkerRunning(workers[w].pos, call.par.a) /\ workers[w].step < MaxSteps
          \/ ~WorkerRunning(workers[w].pos, call.par.a) /\ call.par.st0 > 0

\* rng() is not atomic: the worker reads state and increment ...
SDTLoad(w) ==
    /\ call.engine = "SDT" /\ call.phase = "running"
    /\ SDTNeedsDraw(w)
    /\ workers[w].rd = NoGen
    /\ workers' = [workers EXCEPT ![w].rd = rng]
    /\ UNCHANGED <<rng, dq, call, sim_data, vecs, ser, trial, log, prev, host>>

\* ... and later stores the bumped state and uses its output
SDTDrawn(w) == Bump(workers[w].rd.state, workers[w].rd.inc)

SDTStore(w) ==
    /\ workers[w].rd # NoGen
    /\ rng' = [rng EXCEPT !.state = SDTDrawn(w)]

SDTEvidence(w) ==
    /\ call.engine = "SDT" /\ call.phase = "running"
    /\ workers[w].pc = "evidence"
    /\ SDTStore(w)
    /\ LET evidence == Normal(call.par.v, call.par.sv, Output(SDTDrawn(w)))
       IN  workers' =
             [workers EXCEPT
                ![w] = [@ EXCEPT
                          !.rd = NoGen,
                          !.evidence = evidence,
                          !.drift = evidence * Dt,
                          !.step = 0,
                          !.noise = <<>>,
                          !.pos = IF call.par.sz > 0 THEN @ ELSE call.z,
                          !.start = IF call.par.sz > 0 THEN @ ELSE call.z,
                          !.hit = IF call.par.sz > 0 THEN -1
                                  ELSE FirstExit(-1, call.z, call.par.a, 0),
                          !.pc = IF call.par.sz > 0 THEN "startpt" ELSE "walk"]]
    /\ log' = [log EXCEPT !.drew = TRUE,
                          !.sampled = @ \cup {<<"normal", call.par.v, call.par.sv>>}]
    /\ UNCHANGED <<dq, call, sim_data, vecs, ser, trial, prev, host>>

SDTStartPoint(w) ==
    /\ call.engine = "SDT" /\ call.phase = "running"
    /\ workers[w].pc = "startpt"
    /\ SDTStore(w)
    /\ LET lo == call.z - Mul(Half, call.par.sz)
           hi == call.z + Mul(Half, call.par.sz)
           pos == Uniform(lo, hi, Output(SDTDrawn(w)))
       IN  /\ workers' = [workers EXCEPT
                            ![w] = [@ EXCEPT !.rd = NoGen, !.pos = pos,
                                             !.start = pos, !.pc = "walk",
                                             !.hit = FirstExit(-1, pos, call.par.a, 0)]]
           /\ log' = [log EXCEPT !.sampled = @ \cup {<<"uniform", lo, hi>>}]
    /\ UNCHANGED <<dq, call, sim_data, vecs, ser, trial, prev, host>>

SDTStep(w) ==
    /\ call.engine = "SDT" /\ call.phase = "running"
    /\ workers[w].pc = "walk"
    /\ WorkerRunning(workers[w].pos, call.par.a)
    /\ workers[w].step < MaxSteps
    /\ SDTStore(w)
    /\ LET me == workers[w]
           pos == me.pos + me.drift + Normal(0, call.s, Output(SDTDrawn(w)))
       IN  workers' =
             [workers EXCEPT
                ![w] = [me EXCEPT
                          !.rd = NoGen, !.pos = pos, !.step = @ + 1,
                          !.noise = Append(@, pos - me.pos - me.drift),
                          !.hit = FirstExit(@, pos, call.par.a, me.step + 1)]]
    /\ log' = [log EXCEPT !.sampled = @ \cup {<<"normal", 0, call.s>>}]
    /\ UNCHANGED <<dq, call, sim_data, vecs, ser, trial, prev, host>>

RespondSwapped(row, pos, evidence, p) ==
    IF pos >= p.a
    THEN [row EXCEPT !.speeded_resp = 1,
                     !.delayed_resp = IF evidence > Crit(p, 1) THEN 1 ELSE @]
    ELSE [row EXCEPT !.delayed_resp = IF evidence > Crit(p, 0) THEN 1 ELSE @]

\* lines 176-185 of src/diffusion.cpp, 50-59 of src/diffusion_parallel.cpp
Respond(row, pos, evidence, p) ==
    IF pos >= p.a
    THEN [row EXCEPT !.speeded_resp = 1,
                     !.delayed_resp = IF evidence > Crit(p, 0) THEN 1 ELSE @]
    ELSE [row EXCEPT !.delayed_resp = IF evidence > Crit(p, 1) THEN 1 ELSE @]

RowFromBegin(me) == me.i - me.begin

\* the row a worker writes for the trial it has just integrated
Row(me) == me.i

NextTrial(w) ==
    [w EXCEPT !.i = @ + 1, !.rd = NoGen,
              !.pc = IF w.i + 1 < w.end THEN "evidence" ELSE "done"]

SDTWrite(w) ==
    /\ call.engine = "SDT" /\ call.phase = "running"
    /\ workers[w].pc = "walk"
    /\ ~WorkerRunning(workers[w].pos, call.par.a)
    /\ LET me == workers[w]
           i == me.i
           ndt == IF call.par.st0 > 0
                  THEN Uniform(call.par.t0, call.par.t0 + call.par.st0,
                               Output(SDTDrawn(w)))
                  ELSE call.par.t0
       IN  /\ IF call.par.st0 > 0
                 THEN /\ SDTStore(w)
                      /\ log' = [log EXCEPT
                                   !.sampled = @ \cup {<<"uniform", call.par.t0,
                                                         call.par.t0 + call.par.st0>>}]
                 ELSE UNCHANGED <<rng, log>>
           /\ sim_data' =
                 [sim_data EXCEPT
                    ![Row(me)] = Respond([@ EXCEPT !.RT = ndt + me.step * Dt],
                                   me.pos, me.evidence, call.par)]
           /\ trial' = [trial EXCEPT
                          ![Row(me)] = [evidence |-> me.evidence, drift |-> me.drift,
                                  start |-> me.start, ndt |-> ndt,
                                  steps |-> me.step, pos |-> me.pos,
                                  hit |-> me.hit, noise |-> me.noise,
                                  by |-> Append(@.by, me.end)]]
           /\ workers' = [workers EXCEPT ![w] = NextTrial(me)]
    /\ UNCHANGED <<dq, call, vecs, ser, prev, host>>

SDTJoin ==
    /\ call.engine = "SDT" /\ call.phase = "running"
    /\ AllDone
    /\ call' = [call EXCEPT !.phase = "returned"]
    /\ UNCHANGED <<rng, dq, sim_data, vecs, ser, workers, trial, log, host>>

SDTReturn ==
    /\ SDTJoin
    /\ UNCHANGED prev

\* ------------------- diffusion_parallel (src/diffusion_parallel.cpp)
\* R's runif(n, lo, hi): n values of the R session's generator
RUnif(n, lo, hi) == [Rows(n) -> IF hi > lo THEN lo .. hi - 1 ELSE {lo}]

ParDists(p, z) ==
    {<<"uniform", p.t0, p.t0 + p.st0>>}
      \cup (IF p.sz > 0
            THEN {<<"uniform", z - Mul(Half, p.sz), z + Mul(Half, p.sz)>>}
            ELSE {})

ParBegin(n, p, cuts) ==
    /\ call.phase = "idle"
    /\ LET z == Mul(p.z, p.a)
       IN  /\ \E NDT \in RUnif(n, p.t0, p.t0 + p.st0) :
                 \E start_points \in
                       IF p.sz > 0
                       THEN RUnif(n, z - Mul(Half, p.sz), z + Mul(Half, p.sz))
                       ELSE {[i \in Rows(n) |-> z]} :
                    vecs' = [NoVecs EXCEPT !.NDT = NDT,
                                           !.start_points = start_points]
           /\ call' = StartCall("parallel", n, p, cuts, z)
           /\ log' = [drew |-> n > 0,
                      built |-> ParDists(p, z) \cup {<<"normal", 0, Unit>>},
                      sampled |-> IF n > 0 THEN ParDists(p, z) ELSE {}]
    /\ sim_data' = NewMatrix(n)
    /\ trial' = [i \in Rows(n) |-> NoTrial]
    /\ workers' = NewWorkers(n, cuts)
    /\ ser' = NoSer
    /\ UNCHANGED <<rng, dq, prev, host>>

ParWorkerStart(w) ==
    /\ call.engine = "parallel" /\ call.phase = "running"
    /\ workers[w].pc = "start"
    /\ workers' = [workers EXCEPT
                     ![w].gen = PcgSeedStream(FixedSeed, StreamKey(workers[w])),
                     ![w].key = StreamKey(workers[w]),
                     ![w].pc = "evidence"]
    /\ UNCHANGED <<rng, dq, call, sim_data, vecs, ser, trial, log, prev, host>>

ParEvidence(w) ==
    /\ call.engine = "parallel" /\ call.phase = "running"
    /\ workers[w].pc = "evidence"
    /\ LET me == workers[w]
           g == Advance(me.gen)
           evidence == call.par.v + StdNormal(Output(g.state)) * call.par.sv
       IN  workers' =
             [workers EXCEPT
                ![w] = [me EXCEPT !.gen = g, !.evidence = evidence,
                                  !.drift = evidence * Dt, !.step = 0,
                                  !.noise = <<>>,
                                  !.pos = vecs.start_points[me.i],
                                  !.start = vecs.start_points[me.i],
                                  !.hit = FirstExit(-1, vecs.start_points[me.i],
                                                    call.par.a, 0),
                                  !.pc = "walk"]]
    /\ log' = [log EXCEPT !.sampled = @ \cup {<<"normal", 0, Unit>>}]
    /\ UNCHANGED <<rng, dq, call, sim_data, vecs, ser, trial, prev, host>>

ParStep(w) ==
    /\ call.engine = "parallel" /\ call.phase = "running"
    /\ workers[w].pc = "walk"
    /\ WorkerRunning(workers[w].pos, call.par.a)
    /\ workers[w].step < MaxSteps
    /\ LET me == workers[w]
           g == Advance(me.gen)
           pos == me.pos + me.drift + StdNormal(Output(g.state)) * call.s
       IN  workers' =
             [workers EXCEPT
                ![w] = [me EXCEPT
                          !.gen = g, !.pos = pos, !.step = @ + 1,
                          !.noise = Append(@, pos - me.pos - me.drift),
                          !.hit = FirstExit(@, pos, call.par.a, me.step + 1)]]
    /\ UNCHANGED <<rng, dq, call, sim_data, vecs, ser, trial, log, prev, host>>

ParWrite(w) ==
    /\ call.engine = "parallel" /\ call.phase = "running"
    /\ workers[w].pc = "walk"
    /\ ~WorkerRunning(workers[w].pos, call.par.a)
    /\ LET me == workers[w]
           i == me.i
       IN  /\ sim_data' =
                 [sim_data EXCEPT
                    ![Row(me)] = Respond([@ EXCEPT !.RT = vecs.NDT[i] + me.step * Dt],
                                   me.pos, me.evidence, call.par)]
           /\ trial' = [trial EXCEPT
                          ![Row(me)] = [evidence |-> me.evidence, drift |-> me.drift,
                                  start |-> me.start, ndt |-> vecs.NDT[i],
                                  steps |-> me.step, pos |-> me.pos,
                                  hit |-> me.hit, noise |-> me.noise,
                                  by |-> Append(@.by, me.end)]]
           /\ workers' = [workers EXCEPT ![w] = NextTrial(me)]
    /\ UNCHANGED <<rng, dq, call, vecs, ser, log, prev, host>>

ParReturn ==
    /\ call.engine = "parallel" /\ call.phase = "running"
    /\ AllDone
    /\ call' = [call EXCEPT !.phase = "returned"]
    /\ UNCHANGED <<rng, dq, sim_data, vecs, ser, workers, trial, log, prev, host>>

Next ==
    \/ \E new_seed \in Seeds : SetSeed(new_seed)
    \/ \E n \in Trials, p \in Params : Sim2Begin(n, p)
    \/ Sim2Step
    \/ Sim2TrialEnd
    \/ Sim2Return
    \/ \E n \in Trials, p \in Params : \E cuts \in Splits(n) : SDTBegin(n, p, cuts)
    \/ \E w \in DOMAIN workers : SDTWorkerStart(w)
    \/ \E w \in DOMAIN workers : SDTLoad(w)
    \/ \E w \in DOMAIN workers : SDTEvidence(w)
    \/ \E w \in DOMAIN workers : SDTStartPoint(w)
    \/ \E w \in DOMAIN workers : SDTStep(w)
    \/ \E w \in DOMAIN workers : SDTWrite(w)
    \/ SDTReturn
    \/ \E n \in Trials, p \in Params : \E cuts \in Splits(n) : ParBegin(n, p, cuts)
    \/ \E w \in DOMAIN workers : ParWorkerStart(w)
    \/ \E w \in DOMAIN workers : ParEvidence(w)
    \/ \E w \in DOMAIN workers : ParStep(w)
    \/ \E w \in DOMAIN workers : ParWrite(w)
    \/ ParReturn

Spec == Init /\ [][Next]_vars

\* ------------------------------------------ two seeded diffusion_SDT calls
\* set_diffusion_SDT_seed(k); diffusion_SDT(N, ...); then the same again:
\* same seed, same arguments, same split of [0,N).  prev keeps the first
\* table for the comparison.
DetParams ==
    {p \in Params : ValidRequest(1, p) /\ p.a > p.z /\ p.v = 0 /\ p.sv = 0 /\ p.st0 = 0}

DetSeed(new_seed) ==
    /\ ~prev.armed /\ prev.runs < 2
    /\ prev.runs = 1 => new_seed = prev.seed
    /\ Reseed(new_seed)
    /\ prev' = [prev EXCEPT !.seed = new_seed, !.armed = TRUE]

DetBegin(n, p, cuts) ==
    /\ prev.armed
    /\ prev.runs = 1 => (n = prev.N /\ p = prev.par /\ cuts = prev.cuts)
    /\ SDTStart(n, p, cuts)
    /\ prev' = [prev EXCEPT !.armed = FALSE, !.N = n, !.par = p, !.cuts = cuts]

DetReturn ==
    /\ SDTJoin
    /\ prev' = [prev EXCEPT !.runs = @ + 1,
                            !.table = IF prev.runs = 0 THEN sim_data ELSE @]

NextDet ==
    \/ \E new_seed \in Seeds : DetSeed(new_seed)
    \/ \E n \in Trials \ {0}, p \in DetParams : \E cuts \in Splits(n) :
          DetBegin(n, p, cuts)
    \/ \E w \in DOMAIN workers : SDTWorkerStart(w)
    \/ \E w \in DOMAIN workers : SDTLoad(w)
    \/ \E w \in DOMAIN workers : SDTEvidence(w)
    \/ \E w \in DOMAIN workers : SDTStartPoint(w)
    \/ \E w \in DOMAIN workers : SDTStep(w)
    \/ \E w \in DOMAIN workers : SDTWrite(w)
    \/ DetReturn

SpecDet == Init /\ [][NextDet]_vars

\* ---------------------------------------- two diffusion_SDT_sim2 calls
\* diffusion_SDT_sim2(N, ...) twice with the same arguments and nothing in
\* between.  prev keeps the first call's sampling seed and table.
TwiceBegin(n, p) ==
    /\ prev.runs < 2
    /\ prev.runs = 1 => (n = prev.N /\ p = prev.par)
    /\ Sim2Start(n, p)
    /\ prev' = [prev EXCEPT !.N = n, !.par = p]

TwiceReturn ==
    /\ Sim2Finish
    /\ prev' = [prev EXCEPT !.runs = @ + 1,
                            !.seed = IF prev.runs = 0 THEN ser.seed ELSE @,
                            !.table = IF prev.runs = 0 THEN sim_data' ELSE @]

NextTwice ==
    \/ \E n \in Trials, p \in Params : TwiceBegin(n, p)
    \/ Sim2Step
    \/ Sim2TrialEnd
    \/ TwiceReturn

SpecTwice == Init /\ [][NextTwice]_vars

\* ------------------------------------- diffusion_SDT on every host
\* One diffusion_SDT call on a host with any hardware concurrency and any
\* value of RCPP_PARALLEL_NUM_THREADS.
InitThreads ==
    /\ rng = PcgSeed(0)
    /\ host \in Hosts
    /\ Fresh

NextThreads ==
    \/ \E n \in Trials \ {0}, p \in DetParams : \E cuts \in Splits(n) :
          SDTBegin(n, p, cuts)
    \/ \E w \in DOMAIN workers : SDTWorkerStart(w)
    \/ \E w \in DOMAIN workers : SDTLoad(w)
    \/ \E w \in DOMAIN workers : SDTEvidence(w)
    \/ \E w \in DOMAIN workers : SDTStartPoint(w)
    \/ \E w \in DOMAIN workers : SDTStep(w)
    \/ \E w \in DOMAIN workers : SDTWrite(w)
    \/ SDTReturn

SpecThreads == InitThreads /\ [][NextThreads]_vars

\* ======================================================== properties
Partitioned ==
    call.engine \in {"SDT", "parallel"} /\ call.phase \in {"running", "returned"}

Owners(i) ==
    {w \in DOMAIN workers : workers[w].begin <= i /\ i < workers[w].end}

Owner(i) == CHOOSE w \in DOMAIN workers : w \in Owners(i)

Written(i) == Len(trial[i].by) > 0

\* row i has received its final value
Final(i) ==
    \/ Partitioned /\ Written(i)
    \/ call.engine = "sim2" /\ call.phase = "returned"

\* the row that the quantities of trial i determine
ResultOf(i) ==
    LET t == trial[i]
        upper == t.pos >= call.par.a
    IN  [RT |-> t.ndt + t.steps * Dt,
         speeded_resp |-> IF upper THEN 1 ELSE 0,
         delayed_resp |->
             IF \/ upper /\ t.evidence > Crit(call.par, 0)
                \/ ~upper /\ t.evidence > Crit(call.par, 1)
             THEN 1 ELSE 0]

\* C1: in diffusion_SDT and diffusion_parallel the ranges handed to
\* operator() are pairwise disjoint and cover [0,N); a worker invocation
\* writes only rows of its own range; so in every interleaving each row i is
\* written by exactly one invocation, once that invocation has passed i, and
\* then holds the result of trial i (and is untouched before).
RowOwnership ==
    Partitioned =>
      /\ DOMAIN trial = Rows(call.N) /\ DOMAIN sim_data = Rows(call.N)
      /\ \A w \in DOMAIN workers :
            0 <= workers[w].begin /\ workers[w].begin < workers[w].end
              /\ workers[w].end <= call.N
      /\ \A i \in Rows(call.N) :
            /\ Cardinality(Owners(i)) = 1
            /\ \A k \in 1 .. Len(trial[i].by) :
                  trial[i].by[k] = workers[Owner(i)].end
            /\ Len(trial[i].by) = IF workers[Owner(i)].i > i THEN 1 ELSE 0
            /\ ~Written(i) => sim_data[i] = ZeroRow
            /\ Written(i) =>
                  /\ sim_data[i] = ResultOf(i)
                  /\ call.engine = "parallel" =>
                        /\ trial[i].ndt = vecs.NDT[i]
                        /\ trial[i].start = vecs.start_points[i]

TwoWorkersWroteTheirRows ==
    /\ Partitioned /\ call.phase = "returned"
    /\ Cardinality(DOMAIN workers) = 2
    /\ \A i \in Rows(call.N) : Written(i)
    /\ \E i, j \in Rows(call.N) : trial[i].by # trial[j].by

\* C2: while a worker invocation is running, the generator it draws from
\* has the stream that this invocation selected, and no other invocation
\* has advanced it between this invocation's read and write of its state.
OwnStream ==
    \A w \in DOMAIN workers :
       workers[w].pc \notin {"start", "done"} =>
         /\ call.engine = "SDT" =>
               /\ rng.inc = StreamInc(workers[w].end)
               /\ workers[w].rd # NoGen => workers[w].rd = rng
         /\ call.engine = "parallel" =>
               workers[w].gen.inc = StreamInc(workers[w].end)

\* C3: two diffusion_SDT calls with the same seed set immediately before
\* each, the same parameters and the same partitioning return identical
\* tables, however the workers are scheduled.
Determinism ==
    (prev.runs = 2 /\ call.phase = "returned") => sim_data = prev.table

\* C4: in every engine a trial stops at the first update after which the
\* position is <= 0 or >= a (zero updates when it starts there), the step
\* count is the number of updates, and the primary response is 1 iff the
\* terminal position is >= a.
AbsorbingBoundaries ==
    \A i \in DOMAIN trial :
       Written(i) =>
         /\ trial[i].steps = trial[i].hit
         /\ (trial[i].start <= 0 \/ trial[i].start >= call.par.a)
               => trial[i].steps = 0
         /\ sim_data[i].speeded_resp = 1 <=> trial[i].pos >= call.par.a

\* C5: in every engine a final row's secondary response is 1 iff (primary
\* is upper and evidence > crit[0]) or (primary is lower and evidence >
\* crit[1]), else 0; the evidence compared is the value whose product with
\* dt was the trial's per-step drift.
SecondaryResponse ==
    \A i \in DOMAIN trial :
       Final(i) =>
         /\ sim_data[i].speeded_resp \in {0, 1}
         /\ sim_data[i].delayed_resp =
               IF \/ sim_data[i].speeded_resp = 1
                     /\ trial[i].evidence > Crit(call.par, 0)
                  \/ sim_data[i].speeded_resp = 0
                     /\ trial[i].evidence > Crit(call.par, 1)
               THEN 1 ELSE 0
         /\ trial[i].drift = trial[i].evidence * Dt

BothSecondaryBranchesTaken ==
    /\ call.phase = "returned" /\ call.N = 2
    /\ sim_data[0].speeded_resp = 1 /\ sim_data[0].delayed_resp = 0
    /\ sim_data[1].speeded_resp = 0 /\ sim_data[1].delayed_resp = 1
    /\ Crit(call.par, 0) # Crit(call.par, 1)

\* C6: for valid parameters every final row has reaction_time = sampled
\* non-decision time + steps*dt with steps >= 0, the non-decision time lies
\* in [t0, t0+st0] (exactly t0 when st0 = 0), hence reaction_time >= t0.
ReactionTime ==
    ValidRequest(call.N, call.par) =>
      \A i \in DOMAIN trial :
         Final(i) =>
           /\ sim_data[i].RT = trial[i].ndt + trial[i].steps * Dt
           /\ trial[i].steps \in Nat
           /\ call.par.t0 <= trial[i].ndt
           /\ trial[i].ndt <= call.par.t0 + call.par.st0
           /\ call.par.st0 = 0 => trial[i].ndt = call.par.t0
           /\ sim_data[i].RT >= call.par.t0

SampledNonDecisionTime ==
    /\ call.phase = "returned" /\ ValidRequest(call.N, call.par)
    /\ call.par.st0 > 0
    /\ \E i \in DOMAIN trial :
          Final(i) /\ trial[i].ndt > call.par.t0 /\ trial[i].steps > 0

\* C7: a request with invalid parameters ends in a ValidationError before
\* any random draw and before any row is written; no table is returned.
ValidationBeforeSampling ==
    (call.phase # "idle" /\ ~ValidRequest(call.N, call.par)) =>
      /\ ~log.drew
      /\ \A i \in DOMAIN trial : ~Written(i)
      /\ call.phase # "returned"

\* C8: in every engine each trial starts in [z*a - sz/2, z*a + sz/2], and
\* exactly at z*a when sz = 0.
AbsoluteStart ==
    ValidRequest(call.N, call.par) =>
      \A i \in DOMAIN trial :
         Written(i) =>
           LET za == Mul(call.par.z, call.par.a)
           IN  /\ za - Mul(Half, call.par.sz) <= trial[i].start
               /\ trial[i].start <= za + Mul(Half, call.par.sz)
               /\ call.par.sz = 0 => trial[i].start = za

\* C9: when sv, sz or st0 is not strictly positive the per-trial quantity is
\* the central parameter, through an explicit branch: no normal
\* distribution with sd 0 and no uniform distribution with equal bounds is
\* constructed or sampled.
NoDegenerateDistribution ==
    ValidRequest(call.N, call.par) =>
      /\ \A d \in log.built \cup log.sampled :
            /\ d[1] = "normal" => d[3] > 0
            /\ d[1] = "uniform" => d[2] < d[3]
      /\ \A i \in DOMAIN trial :
            Written(i) =>
              /\ call.par.sv <= 0 => trial[i].evidence = call.par.v
              /\ call.par.sz <= 0 => trial[i].start = call.z
              /\ call.par.st0 <= 0 => trial[i].ndt = call.par.t0

\* C10: a call of diffusion_SDT_sim2 or diffusion_SDT leaves the
\* process-wide generator as it found it: same state, same stream.
GeneratorUntouched ==
    (call.phase = "returned" /\ call.engine \in {"sim2", "SDT"}) =>
      rng = call.rng0

\* a non-empty string of decimal digits, and the number it writes
Numeral(text) == text # <<>> /\ \A k \in 1 .. Len(text) : IsDigit(text[k])

RECURSIVE NumeralValue(_)
NumeralValue(text) ==
    IF text = <<>> THEN 0
    ELSE 10 * NumeralValue(SubSeq(text, 1, Len(text) - 1)) + DigitOf(text[Len(text)])

\* zero, negative or non-numeric
InvalidOverride(text) ==
    \/ Numeral(text) /\ NumeralValue(text) = 0
    \/ text # <<>> /\ Head(text) = "-" /\ Numeral(Tail(text))
    \/ text = <<>>
    \/ text # <<>> /\ ~IsDigit(Head(text)) /\ Head(text) # "-"

SDTCalled == call.engine = "SDT" /\ call.phase # "idle"

\* C11: the worker-count configuration never fails a diffusion_SDT call; the
\* worker count is the hardware concurrency when RCPP_PARALLEL_NUM_THREADS is
\* absent, the integer it writes when that is positive, and a single worker
\* when it is zero, negative or non-numeric.
WorkerCountConfiguration ==
    SDTCalled =>
      /\ call.phase # "crashed"
      /\ ~host.env.set => call.threads = host.hw
      /\ (host.env.set /\ Numeral(host.env.text)
             /\ NumeralValue(host.env.text) > 0)
            => call.threads = NumeralValue(host.env.text)
      /\ (host.env.set /\ InvalidOverride(host.env.text)) => call.threads = 1

\* C17: nThreads() is at least 1 on every host, the grain size N / nThreads()
\* handed to parallelFor is at least 1 for every N > 0, and the division
\* never divides by zero.
GrainAtLeastOne ==
    (SDTCalled /\ call.N > 0) =>
      /\ call.threads >= 1
      /\ call.phase # "crashed"
      /\ call.grain >= 1

\* C12: a parallel call returns its table only after every worker
\* invocation has finished and every row of [0,N) holds its final value;
\* no worker can write once the call has returned.
JoinBeforeReturn ==
    (Partitioned /\ call.phase = "returned") =>
      /\ \A w \in DOMAIN workers :
            /\ workers[w].pc = "done" /\ workers[w].i = workers[w].end
            /\ ~ENABLED SDTWrite(w) /\ ~ENABLED ParWrite(w)
      /\ DOMAIN sim_data = Rows(call.N)
      /\ \A i \in Rows(call.N) : Written(i) /\ sim_data[i] = ResultOf(i)

ParallelTableReturned ==
    /\ call.engine = "parallel" /\ call.phase = "returned"
    /\ call.N = 2 /\ Cardinality(DOMAIN workers) = 2
    /\ \A i \in Rows(call.N) : Written(i) /\ trial[i].steps > 0

Started(w) == workers[w].pc # "start"

\* C13: within one parallel call every worker invocation selects the stream
\* keyed by the exclusive upper bound of its range, the ranges are non-empty
\* and disjoint, and no two invocations select the same key.
DistinctStreamKeys ==
    Partitioned =>
      \A w1 \in DOMAIN workers :
         /\ workers[w1].begin < workers[w1].end
         /\ Started(w1) => workers[w1].key = workers[w1].end
         /\ \A w2 \in DOMAIN workers \ {w1} :
               /\ \/ workers[w1].end <= workers[w2].begin
                  \/ workers[w2].end <= workers[w1].begin
               /\ (Started(w1) /\ Started(w2)) => workers[w1].key # workers[w2].key

TwoStreamsSelected ==
    /\ Partitioned /\ call.phase = "running"
    /\ Cardinality(DOMAIN workers) = 2
    /\ \A w \in DOMAIN workers : Started(w) /\ workers[w].pc # "done"

\* the loop of diffusion_SDT_sim2 (lines 66-69) on a given noise sequence
RECURSIVE Sim2Walk(_, _, _, _, _)
Sim2Walk(pos, step, v_inst, noise, a) ==
    IF Sim2Running(pos, a) /\ noise # <<>>
    THEN Sim2Walk(pos + v_inst + Head(noise), step + 1, v_inst, Tail(noise), a)
    ELSE [pos |-> pos, step |-> step, ended |-> ~Sim2Running(pos, a)]

\* the loop of Diffusion::operator() (lines 165-168) on a given noise sequence
RECURSIVE WorkerWalk(_, _, _, _, _)
WorkerWalk(pos, step, drift, noise, a) ==
    IF WorkerRunning(pos, a) /\ noise # <<>>
    THEN WorkerWalk(pos + drift + Head(noise), step + 1, drift, Tail(noise), a)
    ELSE [pos |-> pos, step |-> step, ended |-> ~WorkerRunning(pos, a)]

\* lines 70-88 of src/diffusion.cpp for one trial
Sim2Row(walk, evidence, ndt, p) ==
    LET said_old == walk.pos >= p.a
        above_crit_o == evidence > Crit(p, 0)
        above_crit_n == evidence > Crit(p, 1)
    IN  [RT |-> ndt + walk.step * Dt,
         speeded_resp |-> IF said_old THEN 1 ELSE 0,
         delayed_resp |->
             IF (above_crit_o /\ said_old) \/ (above_crit_n /\ ~said_old)
             THEN 1 ELSE 0]

\* lines 170-185 of src/diffusion.cpp for one trial
WorkerRow(walk, evidence, ndt, p) ==
    Respond([ZeroRow EXCEPT !.RT = ndt + walk.step * Dt], walk.pos, evidence, p)

\* C14: on the start, evidence, boundary, criteria, non-decision time and
\* noise values of any trial an engine has run, the serial loop and the
\* parallel worker's loop both end, after the same number of steps, and give
\* the same row (reaction time, primary and secondary response), also when
\* the position lands exactly on 0 or on a.
EnginesInterchangeable ==
    \A i \in DOMAIN trial :
       (Written(i) /\ ValidRequest(call.N, call.par)) =>
         LET t == trial[i]
             serial == Sim2Walk(t.start, 0, t.drift, t.noise, call.par.a)
             worker == WorkerWalk(t.start, 0, t.drift, t.noise, call.par.a)
         IN  /\ serial.ended /\ worker.ended
             /\ serial.step = worker.step
             /\ Sim2Row(serial, t.evidence, t.ndt, call.par)
                   = WorkerRow(worker, t.evidence, t.ndt, call.par)

\* the position after the first k updates of a trial
RECURSIVE PathAt(_, _, _, _)
PathAt(start, drift, noise, k) ==
    IF k = 0 THEN start
    ELSE PathAt(start, drift, noise, k - 1) + drift + noise[k]

\* inside the interval of the engine's loop: closed in diffusion_SDT_sim2,
\* open in the two Diffusion::operator()
InsideInterval(pos) ==
    IF call.engine = "sim2" THEN 0 <= pos /\ pos <= call.par.a
    ELSE 0 < pos /\ pos < call.par.a

KeptInside(start, drift, noise, steps) ==
    /\ Len(noise) = steps
    /\ \A k \in 0 .. steps - 1 : InsideInterval(PathAt(start, drift, noise, k))

\* C15: no engine bounds the step count: a trial is updated only while its
\* position is inside the interval, its loop ends exactly when the position
\* has left it, never because of the number of updates made, and while a
\* trial is inside the call does not return.
NoStepLimit ==
    /\ \A i \in DOMAIN trial :
          Written(i) =>
            /\ KeptInside(trial[i].start, trial[i].drift, trial[i].noise,
                          trial[i].steps)
            /\ trial[i].pos = PathAt(trial[i].start, trial[i].drift,
                                     trial[i].noise, trial[i].steps)
            /\ ~InsideInterval(trial[i].pos)
    /\ \A w \in DOMAIN workers :
          workers[w].pc = "walk" =>
            /\ KeptInside(workers[w].start, workers[w].drift, workers[w].noise,
                          workers[w].step)
            /\ InsideInterval(workers[w].pos) =>
                  /\ ~ENABLED SDTWrite(w) /\ ~ENABLED ParWrite(w)
                  /\ ~ENABLED SDTReturn /\ ~ENABLED ParReturn
    /\ (call.engine = "sim2" /\ ser.pc = "walk") =>
          /\ KeptInside(vecs.start_points[ser.i], vecs.drifts[ser.i], ser.noise,
                        ser.step)
          /\ InsideInterval(ser.pos) =>
                ~ENABLED Sim2TrialEnd /\ ~ENABLED Sim2Return

StillRunningAtBound ==
    /\ call.phase = "running"
    /\ \/ \E w \in DOMAIN workers :
             /\ workers[w].pc = "walk" /\ workers[w].step = MaxSteps
             /\ InsideInterval(workers[w].pos)
       \/ /\ call.engine = "sim2" /\ ser.pc = "walk" /\ ser.step = MaxSteps
          /\ InsideInterval(ser.pos)

\* C16: diffusion_SDT_sim2 leaves the process-wide generator exactly as it
\* found it (one draw for the sampling seed, one step back), so a second
\* call with the same arguments and nothing in between derives the same
\* sampling seed and returns the same table.
Sim2Repeatable ==
    /\ (call.engine = "sim2" /\ call.phase # "idle") =>
          /\ rng = call.rng0
          /\ ser.seed = Output(Advance(call.rng0).state)
    /\ (prev.runs = 2 /\ call.phase = "returned") =>
          /\ ser.seed = prev.seed
          /\ sim_data = prev.table

TwoSim2TablesCompared ==
    /\ prev.runs = 2 /\ call.phase = "returned" /\ call.N = 2
    /\ call.par.sv > 0 /\ call.par.st0 > 0
    /\ sim_data = prev.table
    /\ \E i \in Rows(call.N) : trial[i].steps > 0

====
